---- MODULE Spec2Model ----
(***************************************************************************)
(* show-call: reports, for every call expression of a set of translation   *)
(* units, the declaration the compiler bound the call to, and (with        *)
(* -annotate) queues one clang::tooling::Replacement per reported call     *)
(* that RefactoringTool::runAndSave applies to the source files.           *)
(*                                                                         *)
(* Text is modelled as a sequence of strings: one element per character    *)
(* of an original file, one element per literal or formatted piece that    *)
(* the program writes.  Offsets are 0-based as in clang.                   *)
(***************************************************************************)
EXTENDS Integers, Sequences, FiniteSets, TLC

(***************************************************************************)
(* Bounds of the explored inputs.                                          *)
(***************************************************************************)
\* -call-at-line is drawn from 0..MaxLine
MaxLine == 2
\* the command line names 1..MaxSources source paths
MaxSources == 2

(***************************************************************************)
(* The source files of the explored project, as token lists.  A token is   *)
(* a sequence of characters; white space is a one-character entry.         *)
(*   a.cpp:  e=g();      b.cpp:  c.f();      c.cpp:  p();      h.h:  h();   *)
(*           1_k;                e=cc;                                     *)
(*   d.h  :  the declarations g, f, h, p, _k, one per line                 *)
(***************************************************************************)
Tokens(file) ==
  CASE file = "a.cpp" -> << <<"e">>, <<"=">>, <<"g">>, <<"(">>, <<")">>, <<";">>,
                            <<"\n">>, <<"1", "_", "k">>, <<";">> >>
    [] file = "b.cpp" -> << <<"c">>, <<".">>, <<"f">>, <<"(">>, <<")">>, <<";">>,
                            <<"\n">>, <<"e">>, <<"=">>, <<"c", "c">>, <<";">> >>
    [] file = "c.cpp" -> << <<"p">>, <<"(">>, <<")">>, <<";">> >>
    [] file = "h.h"   -> << <<"h">>, <<"(">>, <<")">>, <<";">> >>
    [] file = "d.h"   -> << <<"g">>, <<";">>, <<"\n">>, <<"f">>, <<";">>, <<"\n">>,
                            <<"h">>, <<";">>, <<"\n">>, <<"p">>, <<";">>, <<"\n">>,
                            <<"_", "k">>, <<";">> >>

Files == {"a.cpp", "b.cpp", "c.cpp", "h.h", "d.h"}
MainFiles == {"a.cpp", "b.cpp", "c.cpp"}

RECURSIVE Flatten(_)
Flatten(toks) ==
  IF toks = <<>> THEN <<>> ELSE Head(toks) \o Flatten(Tail(toks))

\* the bytes of a file as the SourceManager holds them
Content(file) == Flatten(Tokens(file))

\* Lexer::MeasureTokenLength: the length of the token that starts at offset
RECURSIVE TokenLengthAt(_, _)
TokenLengthAt(toks, offset) ==
  IF toks = <<>> THEN 0
  ELSE IF offset = 0 THEN Len(Head(toks))
  ELSE IF offset < Len(Head(toks)) THEN Len(Head(toks)) - offset
  ELSE TokenLengthAt(Tail(toks), offset - Len(Head(toks)))

MeasureTokenLength(file, offset) == TokenLengthAt(Tokens(file), offset)

\* SourceManager::getLineNumber: 1 + the number of newlines before offset
getLineNumber(file, offset) ==
  1 + Cardinality({i \in 1..offset : Content(file)[i] = "\n"})

\* SourceManager::getColumnNumber: 1-based distance from the line's start
getColumnNumber(file, offset) ==
  LET nl == {i \in 1..offset : Content(file)[i] = "\n"}
      start == IF nl = {} THEN 0
               ELSE CHOOSE i \in nl : \A j \in nl : j <= i
  IN offset - start + 1

\* getSourceInfo(SM, Loc, filename, line, col)
getSourceInfo(loc) ==
  [filename |-> loc.file,
   line |-> getLineNumber(loc.file, loc.offset),
   col |-> getColumnNumber(loc.file, loc.offset)]

(***************************************************************************)
(* Declarations a call can be bound to.  kind is the Decl class: a call    *)
(* through a function pointer has a VarDecl as getCalleeDecl().            *)
(***************************************************************************)
D_g    == [kind |-> "FunctionDecl", qname |-> <<"N", "g">>, type |-> "int (double)",
           defaulted |-> FALSE, loc |-> [file |-> "d.h", offset |-> 0]]
D_f    == [kind |-> "FunctionDecl", qname |-> <<"Z", "C", "f">>, type |-> "void (int)",
           defaulted |-> FALSE, loc |-> [file |-> "d.h", offset |-> 3]]
D_h    == [kind |-> "FunctionDecl", qname |-> <<"h">>, type |-> "void ()",
           defaulted |-> FALSE, loc |-> [file |-> "d.h", offset |-> 6]]
D_p    == [kind |-> "VarDecl", qname |-> <<"p">>, type |-> "void (*)()",
           defaulted |-> FALSE, loc |-> [file |-> "d.h", offset |-> 9]]
D_k    == [kind |-> "FunctionDecl", qname |-> <<"operator\"\"_k">>,
           type |-> "int (unsigned long long)",
           defaulted |-> FALSE, loc |-> [file |-> "d.h", offset |-> 12]]
\* the implicit copy assignment of Z::C
D_asgn == [kind |-> "FunctionDecl", qname |-> <<"Z", "C", "operator=">>,
           type |-> "Z::C &(const Z::C &)",
           defaulted |-> TRUE, loc |-> [file |-> "a.cpp", offset |-> 0]]

(***************************************************************************)
(* The call nodes of the files, in the order the traversal visits them     *)
(* (pre-order).  node is the dynamic class of the CallExpr, begin and end  *)
(* are the offsets of getLocStart() and getLocEnd() (the START of the      *)
(* first and of the last token).                                           *)
(***************************************************************************)
CallsIn(file) ==
  CASE file = "a.cpp" ->
         << [node |-> "CXXOperatorCallExpr", file |-> "a.cpp", begin |-> 0,
             end |-> 4, callee |-> D_asgn],
            [node |-> "CallExpr", file |-> "a.cpp", begin |-> 2,
             end |-> 4, callee |-> D_g],
            [node |-> "UserDefinedLiteral", file |-> "a.cpp", begin |-> 7,
             end |-> 7, callee |-> D_k] >>
    [] file = "b.cpp" ->
         << [node |-> "CXXMemberCallExpr", file |-> "b.cpp", begin |-> 0,
             end |-> 4, callee |-> D_f],
            [node |-> "CXXOperatorCallExpr", file |-> "b.cpp", begin |-> 7,
             end |-> 9, callee |-> D_asgn] >>
    [] file = "c.cpp" ->
         << [node |-> "CallExpr", file |-> "c.cpp", begin |-> 0,
             end |-> 2, callee |-> D_p] >>
    [] file = "h.h" ->
         << [node |-> "CallExpr", file |-> "h.h", begin |-> 0,
             end |-> 2, callee |-> D_h] >>
    [] file = "d.h" -> << >>

\* the call nodes of the translation unit of a main file, which includes h.h
TUCalls(path) == CallsIn("h.h") \o CallsIn(path)

\* the values -callee-name is drawn from ("" is <<>>; "C::f" is <<"C", "f">>)
CalleeNames == { <<>>, <<"f">>, <<"C", "f">>, <<"g">>, <<"p">> }

RECURSIVE SeqsUpTo(_, _)
SeqsUpTo(S, n) ==
  IF n = 0 THEN { <<>> }
  ELSE LET shorter == SeqsUpTo(S, n - 1)
       IN shorter \cup { Append(s, x) : s \in shorter, x \in S }

VARIABLES
  pc,               \* where main is: Init, PerFileTraversal, ApplyEdits, Done, Aborted
  CallAtLine,       \* cl::opt<unsigned> CallAtLine
  CalleeName,       \* cl::opt<std::string> CalleeName, as "::"-separated parts
  ShowCallAST,      \* cl::opt<bool> ShowCallAST
  ShowCalleeAST,    \* cl::opt<bool> ShowCalleeAST
  Annotate,         \* cl::opt<bool> Annotate
  SourcePaths,      \* cl::list<std::string> SourcePaths
  tu,               \* index in SourcePaths of the translation unit being traversed
  pos,              \* index in TUCalls of the next call node to visit
  callKind,         \* the callKind the last run() passed to dumpCallInfo
  errs,             \* what was written to llvm::errs()
  Replace,          \* Tool.getReplacements(), a std::set<Replacement>
  ProcessingFailed, \* ClangTool::run saw a translation unit with errors
  saved             \* file -> content written by saveRewrittenFiles

vars == <<pc, CallAtLine, CalleeName, ShowCallAST, ShowCalleeAST, Annotate,
          SourcePaths, tu, pos, callKind, errs, Replace, ProcessingFailed, saved>>

options == <<CallAtLine, CalleeName, ShowCallAST, ShowCalleeAST, Annotate, SourcePaths>>

Init ==
  /\ pc = "Init"
  /\ CallAtLine \in 0..MaxLine
  /\ CalleeName \in CalleeNames
  /\ ShowCallAST \in BOOLEAN
  /\ ShowCalleeAST \in BOOLEAN
  /\ Annotate \in BOOLEAN
  /\ SourcePaths \in SeqsUpTo(MainFiles, MaxSources) \ { <<>> }
  /\ tu = 0
  /\ pos = 0
  /\ callKind = ""
  /\ errs = <<>>
  /\ Replace = {}
  /\ ProcessingFailed = FALSE
  /\ saved = <<>>


(***************************************************************************)
(* SCCallBack::run and SCCallBack::dumpCallInfo                            *)
(***************************************************************************)
\* run with the test for an operator call left out
CallKindOf_NoOperator(node) ==
  IF node = "CXXMemberCallExpr" THEN "Member" ELSE "Function"

\* run: the callKind chosen by the isa<> chain
CallKindOf(node) ==
  IF node = "CXXMemberCallExpr" THEN "Member"
  ELSE IF node = "CXXOperatorCallExpr" THEN "Operator"
  ELSE "Function"

RECURSIVE JoinQualified(_)
\* NamedDecl::getQualifiedNameAsString: the parts joined by "::"
JoinQualified(parts) ==
  IF Len(parts) <= 1 THEN parts
  ELSE <<Head(parts), "::">> \o JoinQualified(Tail(parts))

\* hasName(Name): "::" + qualified name ends with "::" + Name
hasName(decl, name) ==
  /\ Len(name) <= Len(decl.qname)
  /\ SubSeq(decl.qname, Len(decl.qname) - Len(name) + 1, Len(decl.qname)) = name

\* main: the matcher registered with the MatchFinder
Matches(call) ==
  IF CalleeName # <<>>
  THEN call.callee.kind = "FunctionDecl" /\ hasName(call.callee, CalleeName)
  ELSE TRUE

\* the line filter without its "0 is no filter" case
LineAccepted_NoSentinel(call) ==
  getSourceInfo([file |-> call.file, offset |-> call.begin]).line = CallAtLine

\* dumpCallInfo: the early return of the line filter is not taken
LineAccepted(call) ==
  LET LineNum == getSourceInfo([file |-> call.file, offset |-> call.begin]).line
  IN ~(LineNum # CallAtLine /\ CallAtLine # 0)

\* Lexer::getSourceText of the token range of the call
SourceText(call) ==
  SubSeq(Content(call.file), call.begin + 1,
         call.end + MeasureTokenLength(call.file, call.end))

\* dumpCallInfo: the "Call site" line, and the dump of the call if asked for
CallSiteOutput(call) ==
  LET info == getSourceInfo([file |-> call.file, offset |-> call.begin])
  IN <<"Call site: ">> \o SourceText(call)
       \o <<" @ ", info.filename, ":", ToString(info.line), "\n">>
       \o (IF ShowCallAST THEN <<"dump ", call.node>> ELSE <<>>)
       \o <<"Callee: ">>

\* cast<FunctionDecl>(call->getCalleeDecl()): the declaration itself when it is
\* a FunctionDecl.  Otherwise the cast asserts (a build with assertions) or the
\* VarDecl is read as a FunctionDecl: its name and type are its own, the bit
\* isDefaulted() reads is whatever the VarDecl holds there.
CastOutcomes(decl) ==
  IF decl.kind = "FunctionDecl"
  THEN { [abort |-> FALSE, decl |-> decl] }
  ELSE { [abort |-> TRUE, decl |-> decl] }
         \cup { [abort |-> FALSE, decl |-> [decl EXCEPT !.defaulted = b]] : b \in BOOLEAN }

\* the description with the declaration site written for every callee
CalleeDescription_AlwaysSite(decl) ==
  LET info == getSourceInfo(decl.loc)
  IN (IF decl.defaulted THEN <<"(defaulted) ">> ELSE JoinQualified(decl.qname) \o <<" ">>)
       \o <<decl.type, " @ ", info.filename, ":", ToString(info.line)>>

\* dumpCallInfo: the string s built in the ostringstream
CalleeDescription(decl) ==
  IF ~decl.defaulted
  THEN LET info == getSourceInfo(decl.loc)
       IN JoinQualified(decl.qname)
            \o <<" ", decl.type, " @ ", info.filename, ":", ToString(info.line)>>
  ELSE <<"(defaulted) ", decl.type>>

\* the annotation that starts with the character AFTER the last token's first
AnnotationText_NextChar(call, decl) ==
  LET c == Content(call.file)[call.end + 2]
  IN <<c>> \o <<" /* ">> \o CalleeDescription(decl) \o <<" */">>

\* dumpCallInfo: the annotation string
AnnotationText(call, decl) ==
  LET c == Content(call.file)[call.end + 1]
  IN <<c>> \o <<" /* ">> \o CalleeDescription(decl) \o <<" */">>

\* Replacement(SM, CharSourceRange::getTokenRange(LocEnd, LocEnd), annotation):
\* the range of a token range runs to the END of its last token
MakeReplacement(call, decl) ==
  [file |-> call.file,
   offset |-> call.end,
   length |-> MeasureTokenLength(call.file, call.end),
   text |-> AnnotationText(call, decl)]

\* Replace.insert without the test of Annotate
QueueAnnotation_Unguarded(edits, call, decl) ==
  edits \cup { MakeReplacement(call, decl) }

\* dumpCallInfo: Replace.insert under if (Annotate)
QueueAnnotation(edits, call, decl) ==
  IF Annotate THEN edits \cup { MakeReplacement(call, decl) } ELSE edits

CurrentCalls == TUCalls(SourcePaths[tu])

Visiting == pc = "PerFileTraversal" /\ pos <= Len(CurrentCalls)

CurrentCall == CurrentCalls[pos]

(***************************************************************************)
(* main, up to the start of the run: the compilation database is looked up *)
(* and the matcher is registered.                                          *)
(***************************************************************************)
Start ==
  /\ pc = "Init"
  /\ \E found \in BOOLEAN :
       IF found
       THEN /\ pc' = "PerFileTraversal"
            /\ tu' = 1
            /\ pos' = 1
            /\ errs' = errs
       ELSE /\ pc' = "Aborted"
            /\ errs' = errs \o <<"LLVM ERROR: ", "ErrorMessage">>
            /\ UNCHANGED <<tu, pos>>
  /\ UNCHANGED <<options, callKind, Replace, ProcessingFailed, saved>>

\* the MatchFinder visits a call node that the registered matcher rejects
MatchFinderSkip ==
  /\ Visiting
  /\ ~Matches(CurrentCall)
  /\ pos' = pos + 1
  /\ UNCHANGED <<pc, options, tu, callKind, errs, Replace, ProcessingFailed, saved>>

\* SCCallBack::run on a matched call node, dumpCallInfo included
run ==
  /\ Visiting
  /\ Matches(CurrentCall)
  /\ callKind' = CallKindOf(CurrentCall.node)
  /\ IF ~LineAccepted(CurrentCall)
     THEN /\ pos' = pos + 1
          /\ UNCHANGED <<pc, errs, Replace>>
     ELSE \E cast \in CastOutcomes(CurrentCall.callee) :
            IF cast.abort
            THEN /\ pc' = "Aborted"
                 /\ errs' = errs \o CallSiteOutput(CurrentCall)
                              \o <<"cast<Ty>() argument of incompatible type!">>
                 /\ UNCHANGED <<pos, Replace>>
            ELSE /\ errs' = errs \o CallSiteOutput(CurrentCall)
                              \o CalleeDescription(cast.decl) \o <<"\n">>
                              \o (IF ShowCalleeAST THEN <<"dump ", "FunctionDecl">> ELSE <<>>)
                              \o <<"\n">>
                 /\ Replace' = QueueAnnotation(Replace, CurrentCall, cast.decl)
                 /\ pos' = pos + 1
                 /\ pc' = pc
  /\ UNCHANGED <<options, tu, ProcessingFailed, saved>>

(***************************************************************************)
(* Tool.run / Tool.runAndSave                                              *)
(***************************************************************************)
\* main: what follows the last translation unit.  runAndSave applies the
\* replacements only when run() returned 0.
AfterRun(failed) ==
  IF Annotate /\ ~failed THEN "ApplyEdits" ELSE "Done"

\* ClangTool::run: a translation unit is finished, with or without errors
EndSourceFile ==
  /\ pc = "PerFileTraversal"
  /\ pos > Len(CurrentCalls)
  /\ \E failed \in BOOLEAN :
       /\ ProcessingFailed' = (ProcessingFailed \/ failed)
       /\ IF tu < Len(SourcePaths)
          THEN /\ tu' = tu + 1
               /\ pos' = 1
               /\ pc' = pc
          ELSE /\ pc' = AfterRun(ProcessingFailed')
               /\ UNCHANGED <<tu, pos>>
  /\ UNCHANGED <<options, callKind, errs, Replace, saved>>

\* the rank of the first piece of a callee description in the order of
\* std::string::operator< : '(' < 'N' < 'Z' < 'h' < 'o' < 'p'
PieceOrder == <<"(defaulted) ", "N", "Z", "h", "operator\"\"_k", "p">>

PieceRank(piece) ==
  IF \E i \in 1..Len(PieceOrder) : PieceOrder[i] = piece
  THEN CHOOSE i \in 1..Len(PieceOrder) : PieceOrder[i] = piece
  ELSE 0

\* std::string::operator< on two texts, decided at the first piece they differ in
TextLess(a, b) ==
  LET n == IF Len(a) < Len(b) THEN Len(a) ELSE Len(b)
      diff == {i \in 1..n : a[i] # b[i]}
  IN IF diff = {} THEN Len(a) < Len(b)
     ELSE LET i == CHOOSE k \in diff : \A j \in diff : k <= j
          IN PieceRank(a[i]) < PieceRank(b[i])

\* operator<(Replacement, Replacement) within one file: offset, length, text
ReplacementLess(a, b) ==
  IF a.offset # b.offset THEN a.offset < b.offset
  ELSE IF a.length # b.length THEN a.length < b.length
  ELSE TextLess(a.text, b.text)

RECURSIVE InSetOrder(_)
\* the replacements of a std::set in iteration order
InSetOrder(S) ==
  IF S = {} THEN <<>>
  ELSE LET first == CHOOSE a \in S : \A b \in S \ {a} : ReplacementLess(a, b)
       IN <<first>> \o InSetOrder(S \ {first})

\* RewriteBuffer::ReplaceText at an offset of the original file, delta being
\* the growth caused by the replacements already applied at or before it
ReplaceText(buffer, delta, r) ==
  LET RealOffset == r.offset + delta
  IN SubSeq(buffer, 1, RealOffset) \o r.text
       \o SubSeq(buffer, RealOffset + r.length + 1, Len(buffer))

RECURSIVE ApplyInOrder(_, _, _)
ApplyInOrder(buffer, delta, edits) ==
  IF edits = <<>> THEN buffer
  ELSE ApplyInOrder(ReplaceText(buffer, delta, Head(edits)),
                    delta + Len(Head(edits).text) - Head(edits).length,
                    Tail(edits))

\* applyAllReplacements on the buffer of one file
RewrittenContent(file, edits) ==
  ApplyInOrder(Content(file), 0, InSetOrder({r \in edits : r.file = file}))

\* runAndSave: applyAllReplacements, then saveRewrittenFiles
ApplyEdits ==
  /\ pc = "ApplyEdits"
  /\ saved' = [file \in {r.file : r \in Replace} |-> RewrittenContent(file, Replace)]
  /\ pc' = "Done"
  /\ UNCHANGED <<options, tu, pos, callKind, errs, Replace, ProcessingFailed>>

Next == Start \/ MatchFinderSkip \/ run \/ EndSourceFile \/ ApplyEdits

Spec == Init /\ [][Next]_vars


(***************************************************************************)
(* Properties                                                              *)
(***************************************************************************)
\* what one step wrote to llvm::errs()
NewOutput == SubSeq(errs', Len(errs) + 1, Len(errs'))

Pieces(text) == {text[i] : i \in DOMAIN text}

\* the line filter and the name filter as a test applied after the traversal
SiteLine(call) == getSourceInfo([file |-> call.file, offset |-> call.begin]).line

SpecAccepts(call) ==
  /\ CallAtLine = 0 \/ SiteLine(call) = CallAtLine
  /\ CalleeName = <<>> \/ hasName(call.callee, CalleeName)

FunctionLike(call) == call.callee.kind = "FunctionDecl"

RECURSIVE AfterClose(_)
\* what follows the first " */" of a text (nothing when there is none)
AfterClose(text) ==
  IF text = <<>> THEN <<>>
  ELSE IF Head(text) = " */" THEN Tail(text)
  ELSE AfterClose(Tail(text))

RECURSIVE StripAnnotations(_)
\* a text without its " /* ... */" annotations
StripAnnotations(text) ==
  IF text = <<>> THEN <<>>
  ELSE IF Head(text) = " /* " THEN StripAnnotations(AfterClose(Tail(text)))
  ELSE <<Head(text)>> \o StripAnnotations(Tail(text))

\* the edits queued for a file have distinct offsets
DistinctOffsets(file) ==
  \A a \in Replace : \A b \in Replace :
    a # b /\ a.file = file /\ b.file = file => a.offset # b.offset

\* C1: every file written by the apply phase from edits at distinct offsets,
\* with its annotations stripped, is the original file byte for byte: each
\* edit is a pure insertion, whatever the length of the call's last token.
AnnotationRoundTrip ==
  \A file \in DOMAIN saved :
    DistinctOffsets(file) => StripAnnotations(saved[file]) = Content(file)

\* C2: no two queued edits of a file share an insert offset.
NonOverlap ==
  \A a \in Replace : \A b \in Replace :
    a # b => ~(a.file = b.file /\ a.offset = b.offset)

\* an accepted call in annotation mode whose last token already carries an edit
WouldCollide ==
  /\ Visiting
  /\ Annotate
  /\ SpecAccepts(CurrentCall)
  /\ \E r \in Replace : r.file = CurrentCall.file /\ r.offset = CurrentCall.end

\* C3: an edit for an offset that already has one is rejected and the run
\* aborts at once: the set of edits is left as it was and the apply phase
\* is never reached.
EditCollisionGuard ==
  [][WouldCollide => pc' = "Aborted" /\ Replace' = Replace]_vars

\* C4: a visited call that the line filter or the name filter rejects writes
\* nothing and queues no edit; a call both accept (L = 0 and N = "" accept
\* everything) whose callee is a function gets its report.
FilterAcceptance ==
  [][Visiting =>
       /\ ~SpecAccepts(CurrentCall) => errs' = errs /\ Replace' = Replace
       /\ SpecAccepts(CurrentCall) /\ FunctionLike(CurrentCall) =>
            /\ Len(errs') > Len(errs)
            /\ NewOutput[1] = "Call site: "]_vars

\* both filters are set, one call was rejected and a later one reported
FilterAcceptanceWitness ==
  /\ CallAtLine = 1
  /\ CalleeName = <<"f">>
  /\ pos > 2
  /\ errs # <<>>

\* the index of the first occurrence of a piece in a text, 0 when absent
IndexOf(text, piece) ==
  IF piece \in Pieces(text)
  THEN CHOOSE i \in DOMAIN text :
         text[i] = piece /\ \A j \in DOMAIN text : text[j] = piece => i <= j
  ELSE 0

\* C5: the report of an accepted call names the call kind the classifier
\* computed in its site line, before the callee line; the dump of the call
\* comes before the callee line iff ShowCallAST, the dump of the callee after
\* it iff ShowCalleeAST.
ReportStructure ==
  [][Visiting /\ SpecAccepts(CurrentCall) /\ FunctionLike(CurrentCall) =>
       LET kind == IndexOf(NewOutput, CallKindOf(CurrentCall.node))
           name == IndexOf(NewOutput, CurrentCall.callee.type)
           call == IndexOf(NewOutput, CurrentCall.node)
           decl == IndexOf(NewOutput, CurrentCall.callee.kind)
       IN /\ 0 < kind /\ kind < name
          /\ ShowCallAST <=> (0 < call /\ call < name)
          /\ ShowCalleeAST <=> (name < decl)]_vars

\* the annotation without a declaration site
SpecAnnotation(decl) ==
  IF decl.defaulted
  THEN <<" /* ", "(defaulted) ", decl.type, " */">>
  ELSE <<" /* ">> \o JoinQualified(decl.qname) \o <<" ", decl.type, " */">>

\* the text an edit adds to the file: its text without the character of the
\* last token that it writes back
SplicedText(r) == Tail(r.text)

CodeAnnotation(decl) ==
  IF decl.defaulted
  THEN <<" /* ", "(defaulted) ", decl.type, " */">>
  ELSE <<" /* ">> \o JoinQualified(decl.qname)
         \o <<" ", decl.type, " @ ", decl.loc.file, ":",
              ToString(getLineNumber(decl.loc.file, decl.loc.offset)), " */">>

PhaseOrder ==
  { <<"Init", "PerFileTraversal">>, <<"PerFileTraversal", "ApplyEdits">>,
    <<"PerFileTraversal", "Done">>, <<"ApplyEdits", "Done">>,
    <<"Init", "Aborted">>, <<"PerFileTraversal", "Aborted">> }

\* C7: the phases follow Init, PerFileTraversal, ApplyEdits, Done (or end in
\* a fatal abort); the files are traversed one after the other; the apply
\* phase is entered only in annotation mode and only when the last file's
\* traversal has finished; files are written in the apply phase alone; and
\* without annotation mode no edit is ever queued and no file written.
RunDriverOrdering ==
  [][/\ pc' # pc => <<pc, pc'>> \in PhaseOrder
     /\ tu' # tu => tu' = tu + 1 /\ (tu = 0 \/ pos > Len(CurrentCalls))
     /\ pc' = "ApplyEdits" =>
          Annotate /\ tu = Len(SourcePaths) /\ pos > Len(CurrentCalls)
     /\ Replace' # Replace => pc = "PerFileTraversal"
     /\ saved' # saved => pc = "ApplyEdits"
     /\ ~Annotate => Replace' = {} /\ saved' = <<>>]_vars

\* a run in annotation mode that went through the apply phase and wrote files
RunDriverWitness ==
  /\ pc = "Done"
  /\ Annotate
  /\ DOMAIN saved # {}
  /\ tu = 2

\* C8: a visited call that passes the filters and whose callee is not a
\* function ends the run at once, and no edit is queued for it.
NonFunctionCalleeAborts ==
  [][Visiting /\ SpecAccepts(CurrentCall) /\ ~FunctionLike(CurrentCall) =>
       pc' = "Aborted" /\ Replace' = Replace]_vars

\* the pieces of a report between "Callee: " and the end of that line
CalleeLine(out) ==
  LET from == IndexOf(out, "Callee: ")
      ends == {i \in DOMAIN out : i > from /\ out[i] = "\n"}
      to == CHOOSE i \in ends : \A j \in ends : i <= j
  IN SubSeq(out, from + 1, to - 1)

\* a description tagged (defaulted) carries no declaration site; any other
\* ends with the site of the declaration
DescribedAs(decl, text) ==
  LET site == <<" @ ", decl.loc.file, ":",
                ToString(getLineNumber(decl.loc.file, decl.loc.offset))>>
  IN IF decl.defaulted
     THEN /\ "(defaulted) " \in Pieces(text)
          /\ Pieces(text) \cap {" @ ", ":"} = {}
          /\ Pieces(text) \cap Files = {}
     ELSE /\ "(defaulted) " \notin Pieces(text)
          /\ Len(text) > Len(site)
          /\ SubSeq(text, Len(text) - Len(site) + 1, Len(text)) = site

\* the description inside an annotation: between the character written back
\* with " /* " and the closing " */"
AnnotationBody(r) == SubSeq(r.text, 3, Len(r.text) - 1)

\* C9: the description of a defaulted callee, in the report and in the
\* annotation, is tagged (defaulted) and has no declaration site; that of any
\* other callee carries the declaration site and is not tagged.
DefaultedCalleeHandling ==
  [][Visiting /\ SpecAccepts(CurrentCall) /\ FunctionLike(CurrentCall) =>
       /\ DescribedAs(CurrentCall.callee, CalleeLine(NewOutput))
       /\ \A r \in Replace' \ Replace :
            DescribedAs(CurrentCall.callee, AnnotationBody(r))]_vars

\* a defaulted and a declared callee were reported and annotated
DefaultedCalleeWitness ==
  /\ "(defaulted) " \in Pieces(errs)
  /\ "d.h" \in Pieces(errs)
  /\ \E r \in Replace : "(defaulted) " \in Pieces(r.text)
  /\ \E r \in Replace : "d.h" \in Pieces(r.text)

\* C10: every call node gets exactly one kind: Member for a member call
\* node, Operator for an operator call node, Function for any other.
ClassificationCoverage ==
  [][Visiting /\ Matches(CurrentCall) =>
       /\ callKind' \in {"Function", "Member", "Operator"}
       /\ CurrentCall.node = "CXXMemberCallExpr" <=> callKind' = "Member"
       /\ CurrentCall.node = "CXXOperatorCallExpr" <=> callKind' = "Operator"
       /\ CurrentCall.node \notin {"CXXMemberCallExpr", "CXXOperatorCallExpr"}
            <=> callKind' = "Function"]_vars

\* calls of all three kinds are classified in one run
ClassificationWitness ==
  /\ SourcePaths = <<"b.cpp">>
  /\ pos = 4
  /\ callKind = "Operator"

====
